---------------------------- MODULE Spec2Model ----------------------------
(***************************************************************************)
(* A model of lib/strategy.js, the VK.com OAuth 2.0 passport strategy:     *)
(* the Strategy constructor, verifyWrapper/passportVerify,                 *)
(* authorizationParams, userProfile (with its response handler) and        *)
(* parseErrorResponse, driven by any number of interleaved authentication  *)
(* flows.                                                                  *)
(*                                                                         *)
(* JavaScript strings are sequences of atoms (TLA+ strings that are never  *)
(* split), so that `+` is \o and Array.prototype.join really interleaves   *)
(* the separator.  The atoms are chosen so that no string has two atom     *)
(* spellings: 'photo_200' is always <<"photo_", "200">>.                   *)
(***************************************************************************)
EXTENDS Integers, Sequences, FiniteSets, TLC

VARIABLES supplied,   \* the options object as the caller wrote it (history)
          verify,     \* the application's verify callback: its declared arity
          options,    \* the same options object, as the constructor leaves it
          strategy,   \* `this`: the strategy instance
          flows       \* the authentication flows in flight

vars == <<supplied, verify, options, strategy, flows>>

(***************************************************************************)
(* JavaScript values                                                       *)
(***************************************************************************)
Undefined == [t |-> "undef", v |-> <<>>]
Str(s)    == [t |-> "str",   v |-> s]
Num(d)    == [t |-> "num",   v |-> <<d>>]
Bool(b)   == [t |-> "bool",  v |-> <<IF b THEN "true" ELSE "false">>]
Arr(a)    == [t |-> "arr",   v |-> a]

\* ToBoolean: undefined, '', 0 and false are falsy; every array is truthy.
Truthy(x) ==
    CASE x.t = "undef" -> FALSE
      [] x.t = "str"   -> x.v # <<>>
      [] x.t = "num"   -> x.v # <<"0">>
      [] x.t = "bool"  -> x.v = <<"true">>
      [] x.t = "arr"   -> TRUE

\* a || b
OrElse(a, b) == IF Truthy(a) THEN a ELSE b

\* String(x), as `+` and join apply it
ToStr(x) == IF x.t = "undef" THEN <<"undefined">> ELSE x.v

\* Array.prototype.indexOf(f) < 0
NotIn(seq, f) == \A i \in 1..Len(seq) : seq[i] # f

\* Array.prototype.join(sep)
RECURSIVE Join(_, _)
Join(seq, sep) ==
    IF seq = <<>> THEN <<>>
    ELSE IF Len(seq) = 1 THEN seq[1]
    ELSE seq[1] \o sep \o Join(Tail(seq), sep)

(***************************************************************************)
(* The Strategy constructor                                                *)
(***************************************************************************)
ScalarOptions == {"authorizationURL", "tokenURL", "scopeSeparator", "lang",
                  "photoSize", "profileURL", "apiVersion"}

NoStrategy ==
    [constructed |-> FALSE, lang |-> Undefined, photoSize |-> Undefined,
     name |-> "", _profileURL |-> Undefined, _profileFields |-> Arr(<<>>),
     _apiVersion |-> Undefined, _verify |-> [arity |-> 0, wrapped |-> FALSE],
     _passReqToCallback |-> FALSE]

\* options.lang = undefined stands for `delete options.lang`: a property
\* that is absent reads as undefined.
Strategy_keepsLang(opts, vfy) ==
    LET o1 == [opts EXCEPT
                 !.authorizationURL = OrElse(@, Str(<<"https://oauth.vk.com/authorize">>)),
                 !.tokenURL = OrElse(@, Str(<<"https://oauth.vk.com/access_token">>)),
                 !.scopeSeparator = OrElse(@, Str(<<",">>)),
                 !.passReqToCallback = Bool(TRUE)]
        o2 == [o1 EXCEPT !.photoSize = Undefined]
    IN  [options |-> o2,
         self |-> [constructed |-> TRUE,
                   lang |-> OrElse(o1.lang, Str(<<"en">>)),
                   photoSize |-> OrElse(o1.photoSize, Num("200")),
                   name |-> "vkontakte",
                   _profileURL |-> OrElse(o2.profileURL, Str(<<"https://api.vk.com/method/users.get">>)),
                   _profileFields |-> OrElse(o2.profileFields, Arr(<<>>)),
                   _apiVersion |-> OrElse(o2.apiVersion, Str(<<"5.110">>)),
                   _verify |-> [arity |-> vfy, wrapped |-> FALSE],
                   _passReqToCallback |-> Truthy(o2.passReqToCallback)]]

Strategy(opts, vfy) ==
    LET \* lines 52-55
        o1 == [opts EXCEPT
                 !.authorizationURL = OrElse(@, Str(<<"https://oauth.vk.com/authorize">>)),
                 !.tokenURL = OrElse(@, Str(<<"https://oauth.vk.com/access_token">>)),
                 !.scopeSeparator = OrElse(@, Str(<<",">>)),
                 !.passReqToCallback = Bool(TRUE)]
        \* lines 60-61
        o2 == [o1 EXCEPT !.lang = Undefined, !.photoSize = Undefined]
    IN  [options |-> o2,
         self |-> [constructed |-> TRUE,
                   \* lines 56-57
                   lang |-> OrElse(o1.lang, Str(<<"en">>)),
                   photoSize |-> OrElse(o1.photoSize, Num("200")),
                   \* line 64
                   name |-> "vkontakte",
                   \* lines 65-67
                   _profileURL |-> OrElse(o2.profileURL, Str(<<"https://api.vk.com/method/users.get">>)),
                   _profileFields |-> OrElse(o2.profileFields, Arr(<<>>)),
                   _apiVersion |-> OrElse(o2.apiVersion, Str(<<"5.110">>)),
                   \* line 63: OAuth2Strategy.call(this, options, verify) keeps
                   \* the verify it is given and options.passReqToCallback;
                   \* the verify handed over is the application's own, not
                   \* verifyWrapper(options, verify).
                   _verify |-> [arity |-> vfy, wrapped |-> FALSE],
                   _passReqToCallback |-> Truthy(o2.passReqToCallback)]]

(***************************************************************************)
(* Errors and JSON                                                         *)
(***************************************************************************)
MkError(name, message, code, cause) ==
    [name |-> name, message |-> message, code |-> code, cause |-> cause]

\* `null` in the error position of done(null, profile)
NoError == MkError("null", Undefined, Undefined, "")

\* new VkontakteAPIError(msg, code) and new VkontakteTokenError(msg, code):
\* an instance is named by its class and the arguments it was built with.
VkontakteAPIError(msg, code)   == MkError("VkontakteAPIError", msg, code, "")
VkontakteTokenError(msg, code) == MkError("VkontakteTokenError", msg, code, "")

\* new InternalOAuthError(message, err)
InternalOAuthError(message, err) ==
    MkError("InternalOAuthError", Str(<<message>>), Undefined, err)

\* What JSON.parse and the property reads that follow it throw.
SyntaxError == MkError("SyntaxError", Str(<<"Unexpected token">>), Undefined, "")
TypeError   == MkError("TypeError", Str(<<"Cannot read property">>), Undefined, "")

\* The `error` member of a parsed body: absent, a string, or an object.
NoErrorField     == [t |-> "undef", v |-> <<>>, error_msg |-> Undefined, error_code |-> Undefined]
StrErrorField(s) == [t |-> "str", v |-> s, error_msg |-> Undefined, error_code |-> Undefined]
ObjErrorField(m, c) == [t |-> "obj", v |-> <<>>, error_msg |-> m, error_code |-> c]

\* ToBoolean(json.error)
ErrorFieldTruthy(e) == e.t = "obj" \/ (e.t = "str" /\ e.v # <<>>)

UserA == [id |-> Num("1"), first_name |-> Str(<<"A">>), last_name |-> Str(<<"B">>),
          sex |-> Num("2"), photo |-> Str(<<"http://x">>)]

JsonValue(ok, isNull, error, hasResponse, response) ==
    [ok |-> ok, isNull |-> isNull, error |-> error,
     hasResponse |-> hasResponse, response |-> response]

BodyHtml        == "<html>502 Bad Gateway</html>"
BodyNull        == "null"
BodyEmptyObject == "{}"
BodyApiError    == "{\"error\":{\"error_msg\":\"Invalid token\",\"error_code\":5}}"
BodyNoUsers     == "{\"response\":[]}"
BodyUserA       == "{\"response\":[{\"id\":1,\"first_name\":\"A\",\"last_name\":\"B\",\"sex\":2,\"photo_200\":\"http://x\"}]}"
BodyTokenError  == "{\"error\":{\"error_msg\":\"invalid_grant\",\"error_code\":100}}"
BodyOAuthError  == "{\"error\":\"invalid_grant\",\"error_description\":\"Code expired\"}"

ProfileBodies == {BodyHtml, BodyNull, BodyEmptyObject, BodyApiError, BodyNoUsers, BodyUserA}
TokenBodies   == {BodyHtml, BodyNull, BodyEmptyObject, BodyTokenError, BodyOAuthError}

\* JSON.parse(body), on the bodies above.  ok = FALSE: it throws a SyntaxError.
JSONParse(body) ==
    CASE body = BodyNull ->
           JsonValue(TRUE, TRUE, NoErrorField, FALSE, <<>>)
      [] body = BodyEmptyObject ->
           JsonValue(TRUE, FALSE, NoErrorField, FALSE, <<>>)
      [] body = BodyApiError ->
           JsonValue(TRUE, FALSE, ObjErrorField(Str(<<"Invalid token">>), Num("5")), FALSE, <<>>)
      [] body = BodyTokenError ->
           JsonValue(TRUE, FALSE, ObjErrorField(Str(<<"invalid_grant">>), Num("100")), FALSE, <<>>)
      [] body = BodyOAuthError ->
           JsonValue(TRUE, FALSE, StrErrorField(<<"invalid_grant">>), FALSE, <<>>)
      [] body = BodyNoUsers ->
           JsonValue(TRUE, FALSE, NoErrorField, TRUE, <<>>)
      [] body = BodyUserA ->
           JsonValue(TRUE, FALSE, NoErrorField, TRUE, <<UserA>>)
      [] OTHER ->
           JsonValue(FALSE, FALSE, NoErrorField, FALSE, <<>>)

(***************************************************************************)
(* Profiles                                                                *)
(***************************************************************************)
NoProfile ==
    [present |-> FALSE, provider |-> "", id |-> Undefined, displayName |-> <<>>,
     gender |-> "", photos |-> <<>>, emails |-> Undefined, _raw |-> ""]

\* lib/profile's parse: the provider's user record as a normalized profile.
parse(json) ==
    [present |-> TRUE, provider |-> "", id |-> json.id,
     displayName |-> json.first_name.v \o <<" ">> \o json.last_name.v,
     gender |-> CASE json.sex = Num("1") -> "female"
                  [] json.sex = Num("2") -> "male"
                  [] OTHER -> "",
     photos |-> <<[value |-> json.photo]>>, emails |-> Undefined, _raw |-> ""]

(***************************************************************************)
(* authorizationParams                                                     *)
(***************************************************************************)
authorizationParams(opts) ==
    IF Truthy(opts.display) THEN [display |-> opts.display]
    ELSE [display |-> Undefined]

(***************************************************************************)
(* userProfile: the request                                                *)
(***************************************************************************)
\* lines 150-157
RequiredFields(self) ==
    << <<"uid">>, <<"first_name">>, <<"last_name">>, <<"screen_name">>, <<"sex">>,
       <<"photo_">> \o ToStr(self.photoSize) >>

PushIfMissing_always(fields, f) == Append(fields, f)

\* line 160
PushIfMissing(fields, f) ==
    IF NotIn(fields, f) THEN Append(fields, f) ELSE fields

\* lines 159-161: forEach over this._profileFields, left to right
RECURSIVE ForEachPush(_, _)
ForEachPush(fields, rest) ==
    IF rest = <<>> THEN fields
    ELSE ForEachPush(PushIfMissing(fields, Head(rest)), Tail(rest))

RequestFields(self) == ForEachPush(RequiredFields(self), self._profileFields.v)

\* lines 148, 163-165
ProfileRequestURL(self) ==
    ToStr(self._profileURL)
      \o <<"?fields=">> \o Join(RequestFields(self), <<",">>)
      \o <<"&v=">> \o ToStr(self._apiVersion)
      \o <<"&https=1">>
      \o (IF Truthy(self.lang) THEN <<"&lang=">> \o ToStr(self.lang) ELSE <<>>)

userProfile_sharedFields(self) ==
    [requests |-> <<ProfileRequestURL(self)>>,
     self |-> [self EXCEPT !._profileFields = Arr(RequestFields(self))]]

\* lines 147-167: the requests issued through this._oauth2.getProtectedResource
\* and `this` as the call leaves it
userProfile(self) ==
    [requests |-> <<ProfileRequestURL(self)>>, self |-> self]

(***************************************************************************)
(* userProfile: the response handler                                       *)
(***************************************************************************)
DoneKinds == {"returns", "throwsOnProfile", "throwsAlways"}

\* Whether the done callback throws when it is called with `call`.
DoneThrows(kind, call) ==
    \/ kind = "throwsAlways"
    \/ kind = "throwsOnProfile" /\ call.profile.present

\* What a throwing done callback throws.
DoneError == MkError("Error", Str(<<"done failed">>), Undefined, "")

DoneCall(err, profile) == [err |-> err, profile |-> profile]

ThrownBeforeDone_noApiCheck(body) ==
    LET json == JSONParse(body) IN
    CASE ~json.ok -> SyntaxError
      [] json.isNull -> TypeError
      [] ~json.hasResponse -> TypeError
      [] json.response = <<>> -> TypeError
      [] OTHER -> NoError

\* lines 171-175: what the try block throws before it reaches done, if anything
ThrownBeforeDone(body) ==
    LET json == JSONParse(body) IN
    CASE ~json.ok -> SyntaxError                     \* JSON.parse(body)
      [] json.isNull -> TypeError                    \* null.error
      [] ErrorFieldTruthy(json.error) ->
           VkontakteAPIError(json.error.error_msg, json.error.error_code)
      [] ~json.hasResponse -> TypeError              \* undefined[0]
      [] json.response = <<>> -> TypeError           \* parse(undefined)
      [] OTHER -> NoError

\* lines 173-178
BuiltProfile(body) ==
    [parse(JSONParse(body).response[1]) EXCEPT !.provider = "vkontakte", !._raw = body]

\* lines 170-183: the try block and its catch
ParseAndDeliver(body, kind) ==
    LET thrown == ThrownBeforeDone(body)
        failed == DoneCall(thrown, NoProfile)
        first  == DoneCall(NoError, BuiltProfile(body))
        second == DoneCall(DoneError, NoProfile)
    IN  IF thrown # NoError
        THEN [calls |-> <<failed>>, parsed |-> TRUE,
              escaped |-> DoneThrows(kind, failed), requests |-> <<>>]
        ELSE IF DoneThrows(kind, first)
        THEN [calls |-> <<first, second>>, parsed |-> TRUE,
              escaped |-> DoneThrows(kind, second), requests |-> <<>>]
        ELSE [calls |-> <<first>>, parsed |-> TRUE, escaped |-> FALSE,
              requests |-> <<>>]

NoTransportError == ""

profileResponse_noReturn(err, body, kind) ==
    LET failed == DoneCall(InternalOAuthError("failed to fetch user profile", err), NoProfile)
        rest   == ParseAndDeliver(body, kind)
    IN  IF err # NoTransportError
        THEN IF DoneThrows(kind, failed)
             THEN [calls |-> <<failed>>, parsed |-> FALSE, escaped |-> TRUE,
                   requests |-> <<>>]
             ELSE [rest EXCEPT !.calls = <<failed>> \o @]
        ELSE rest

\* lines 167-184: the callback given to getProtectedResource
profileResponse(err, body, kind) ==
    LET failed == DoneCall(InternalOAuthError("failed to fetch user profile", err), NoProfile)
    IN  IF err # NoTransportError
        THEN [calls |-> <<failed>>, parsed |-> FALSE,
              escaped |-> DoneThrows(kind, failed), requests |-> <<>>]
        ELSE ParseAndDeliver(body, kind)

(***************************************************************************)
(* parseErrorResponse                                                      *)
(***************************************************************************)
\* The result of OAuth2Strategy.prototype.parseErrorResponse.call(this, body,
\* status): the generic client's own answer, whatever it is, for that body
\* and status.
OAuth2ParseErrorResponse(body, status) ==
    MkError("OAuth2Strategy.parseErrorResponse", Str(<<body>>), Str(<<status>>), "")

Returned(e) == [threw |-> FALSE, value |-> e]
Threw(e)    == [threw |-> TRUE, value |-> e]

\* lines 195-201
parseErrorResponse(body, status) ==
    LET json == JSONParse(body) IN
    CASE ~json.ok -> Threw(SyntaxError)              \* JSON.parse(body)
      [] json.isNull -> Threw(TypeError)             \* null.error
      [] json.error.t = "obj" ->
           Returned(VkontakteTokenError(json.error.error_msg, json.error.error_code))
      [] OTHER -> Returned(OAuth2ParseErrorResponse(body, status))

(***************************************************************************)
(* The verify callback                                                     *)
(***************************************************************************)
Dispatch(args, profile) ==
    [called |-> TRUE, args |-> args, profile |-> profile, error |-> NoError]

\* lines 81-100
passportVerify(arity, params, profile) ==
    LET p == IF Truthy(params.email)
             THEN [profile EXCEPT !.emails = Arr(<<[value |-> params.email]>>)]
             ELSE profile
    IN  CASE arity = 6 ->
               Dispatch(<<"req", "accessToken", "refreshToken", "params", "profile", "verified">>, p)
          [] arity = 5 ->
               Dispatch(<<"accessToken", "refreshToken", "params", "profile", "verified">>, p)
          [] arity = 4 ->
               Dispatch(<<"accessToken", "refreshToken", "profile", "verified">>, p)
          [] OTHER ->
               [called |-> FALSE, args |-> <<>>, profile |-> p,
                error |-> MkError("Error",
                    Str(<<"VKontakteStrategy: verify callback must take 4 or 5 parameters">>),
                    Undefined, "")]

\* How the base OAuth2Strategy calls the verify it was constructed with (line
\* 63) once the profile is loaded, passReqToCallback being on (line 55): a
\* callback of six parameters gets the token parameters, any other gets
\* (req, accessToken, refreshToken, profile, verified).
OAuth2Verify(self, params, profile) ==
    IF self._verify.wrapped
    THEN passportVerify(self._verify.arity, params, profile)
    ELSE IF self._verify.arity = 6
    THEN Dispatch(<<"req", "accessToken", "refreshToken", "params", "profile", "verified">>, profile)
    ELSE Dispatch(<<"req", "accessToken", "refreshToken", "profile", "verified">>, profile)

(***************************************************************************)
(* Authentication flows                                                    *)
(***************************************************************************)
Flows == {"flowA", "flowB"}

Displays        == {Undefined, Str(<<"popup">>)}
Emails          == {Undefined, Str(<<"user@vk.com">>)}
TokenStatuses   == {"400", "401"}
TransportErrors == {"ECONNRESET", "ETIMEDOUT"}

NoResult == Returned(NoError)

IdleFlow ==
    [pc |-> "idle",
     authParams |-> [display |-> Undefined],
     tokenBody |-> "", tokenStatus |-> "", tokenResult |-> NoResult,
     params |-> [email |-> Undefined],
     doneKind |-> "returns",
     outbound |-> <<>>,
     transportError |-> NoTransportError, body |-> "",
     parsed |-> FALSE, doneCalls |-> <<>>, escaped |-> FALSE,
     verifyCalls |-> <<>>, errors |-> <<>>]

\* new Strategy(options, verify)
Construct ==
    /\ ~strategy.constructed
    /\ LET r == Strategy(options, verify) IN
         /\ options' = r.options
         /\ strategy' = r.self
    /\ UNCHANGED <<supplied, verify, flows>>

\* The base strategy asks for the extra authorization parameters and redirects.
AuthorizationParams(f, display) ==
    /\ strategy.constructed
    /\ flows[f].pc = "idle"
    /\ flows' = [flows EXCEPT ![f].pc = "redirected",
                              ![f].authParams = authorizationParams([display |-> display])]
    /\ UNCHANGED <<supplied, verify, options, strategy>>

\* The token endpoint answers with an error body, which parseErrorResponse reads.
TokenFailure(f, body, status) ==
    /\ flows[f].pc = "redirected"
    /\ flows' = [flows EXCEPT ![f].pc = "tokenError",
                              ![f].authParams = [display |-> Undefined],
                              ![f].tokenBody = body,
                              ![f].tokenStatus = status,
                              ![f].tokenResult = parseErrorResponse(body, status)]
    /\ UNCHANGED <<supplied, verify, options, strategy>>

\* The token endpoint answers with an access token and its parameters.
TokenSuccess(f, email) ==
    /\ flows[f].pc = "redirected"
    /\ flows' = [flows EXCEPT ![f].pc = "token",
                              ![f].authParams = [display |-> Undefined],
                              ![f].params = [email |-> email]]
    /\ UNCHANGED <<supplied, verify, options, strategy>>

\* userProfile(accessToken, done), up to the request it issues
UserProfile(f, kind) ==
    /\ flows[f].pc = "token"
    /\ LET r == userProfile(strategy) IN
         /\ strategy' = r.self
         /\ flows' = [flows EXCEPT ![f].pc = "fetching",
                                   ![f].doneKind = kind,
                                   ![f].outbound = @ \o r.requests]
    /\ UNCHANGED <<supplied, verify, options>>

\* The request completes: getProtectedResource calls back with (err, body).
ProfileResponse(f, err, body) ==
    /\ flows[f].pc = "fetching"
    /\ LET r == profileResponse(err, body, flows[f].doneKind) IN
         flows' = [flows EXCEPT ![f].pc = "profileDone",
                                ![f].transportError = err,
                                ![f].body = body,
                                ![f].parsed = r.parsed,
                                ![f].doneCalls = r.calls,
                                ![f].escaped = r.escaped,
                                ![f].outbound = @ \o r.requests]
    /\ UNCHANGED <<supplied, verify, options, strategy>>

\* done is the base strategy's: given the profile, it calls the verify
\* callback the strategy holds.
Verify(f) ==
    /\ flows[f].pc = "profileDone"
    /\ flows[f].doneKind = "returns"
    /\ flows[f].doneCalls[1].profile.present
    /\ LET r == OAuth2Verify(strategy, flows[f].params, flows[f].doneCalls[1].profile) IN
         flows' = [flows EXCEPT
                     ![f].pc = "verified",
                     ![f].verifyCalls = IF r.called
                                        THEN Append(@, [args |-> r.args, profile |-> r.profile])
                                        ELSE @,
                     ![f].errors = IF r.error # NoError THEN Append(@, r.error) ELSE @]
    /\ UNCHANGED <<supplied, verify, options, strategy>>

Next ==
    \/ Construct
    \/ \E f \in Flows, d \in Displays : AuthorizationParams(f, d)
    \/ \E f \in Flows, b \in TokenBodies, s \in TokenStatuses : TokenFailure(f, b, s)
    \/ \E f \in Flows, e \in Emails : TokenSuccess(f, e)
    \/ \E f \in Flows, k \in DoneKinds : UserProfile(f, k)
    \/ \E f \in Flows, b \in ProfileBodies :
         \/ ProfileResponse(f, NoTransportError, b)
         \/ \E e \in TransportErrors : ProfileResponse(f, e, "")
    \/ \E f \in Flows : Verify(f)

(***************************************************************************)
(* Inputs                                                                  *)
(***************************************************************************)
\* Every optional field: left out, given a falsy value, or given a value.
Given(falsy, value) == {Undefined, falsy, value}

MakeOptions(au, tu, ss, pr, la, ps, pu, pf, av) ==
    [authorizationURL |-> au, tokenURL |-> tu, scopeSeparator |-> ss,
     passReqToCallback |-> pr, lang |-> la, photoSize |-> ps,
     profileURL |-> pu, profileFields |-> pf, apiVersion |-> av]

AllOptions ==
    { MakeOptions(au, tu, ss, pr, la, ps, pu, pf, av) :
        au \in Given(Str(<<>>), Str(<<"https://example.org/authorize">>)),
        tu \in Given(Str(<<>>), Str(<<"https://example.org/token">>)),
        ss \in Given(Str(<<>>), Str(<<" ">>)),
        pr \in Given(Bool(FALSE), Bool(TRUE)),
        la \in Given(Str(<<>>), Str(<<"ru">>)),
        ps \in Given(Num("0"), Num("100")),
        pu \in Given(Str(<<>>), Str(<<"https://example.org/users.get">>)),
        pf \in {Undefined, Arr(<<>>), Arr(<< <<"city">> >>)},
        av \in Given(Str(<<>>), Str(<<"5.81">>)) }

NoOptions ==
    MakeOptions(Undefined, Undefined, Undefined, Undefined, Undefined,
                Undefined, Undefined, Undefined, Undefined)

MaxFields == 3

CallerFields == { <<"city">>, <<"sex">>, <<"bdate">>, <<"photo_", "200">> }

RECURSIVE FieldLists(_)
FieldLists(n) ==
    IF n = 0 THEN {<<>>}
    ELSE FieldLists(n - 1)
           \cup {Append(l, c) : l \in {x \in FieldLists(n - 1) : Len(x) = n - 1},
                                c \in CallerFields}

FieldOptions ==
    { [NoOptions EXCEPT !.profileFields = Arr(pf), !.photoSize = ps] :
        pf \in FieldLists(MaxFields), ps \in {Undefined, Num("100")} }

FlowOptions ==
    { [NoOptions EXCEPT !.profileFields = pf, !.lang = la] :
        pf \in {Undefined, Arr(<< <<"city">>, <<"sex">> >>)},
        la \in {Undefined, Str(<<"ru">>)} }

Arities == 3..7

InitWith(optionSet, arities) ==
    /\ supplied \in optionSet
    /\ options = supplied
    /\ verify \in arities
    /\ strategy = NoStrategy
    /\ flows = [f \in Flows |-> IdleFlow]

\* Authentication flows against a strategy built from a few configurations
\* and every verify arity.
Init == InitWith(FlowOptions, Arities)

Spec == Init /\ [][Next]_vars

\* The constructor on every combination of optional fields.
InitOptions == InitWith(AllOptions, {4})

NextOptions == Construct

SpecOptions == InitOptions /\ [][NextOptions]_vars

\* Profile requests for every list of caller-requested profile fields.
InitFields == InitWith(FieldOptions, {6})

\* The flow up to the profile request; what follows it does not touch the URL.
NextFields ==
    \/ Construct
    \/ \E f \in Flows, d \in Displays : AuthorizationParams(f, d)
    \/ \E f \in Flows, e \in Emails : TokenSuccess(f, e)
    \/ \E f \in Flows, k \in DoneKinds : UserProfile(f, k)

SpecFields == InitFields /\ [][NextFields]_vars

(***************************************************************************)
(* Properties                                                              *)
(***************************************************************************)
Range(seq) == {seq[i] : i \in 1..Len(seq)}

Completed(f) == flows[f].pc \in {"profileDone", "verified"}

\* C1: every profile handed to the verify callback carries emails =
\* [{value: email}] when the token parameters hold an email claim, and no
\* emails field when they do not.
C1_EmailInjected ==
    \A f \in Flows : \A i \in 1..Len(flows[f].verifyCalls) :
        LET email == flows[f].params.email
            given == flows[f].verifyCalls[i].profile.emails
        IN  IF email # Undefined
            THEN given = Arr(<<[value |-> email]>>)
            ELSE given = Undefined

\* C2: a verify callback of 6, 5 or 4 parameters is called with the
\* documented argument list for that arity, position by position.
C2_DocumentedArguments ==
    \A f \in Flows : \A i \in 1..Len(flows[f].verifyCalls) :
        LET args == flows[f].verifyCalls[i].args
            arity == strategy._verify.arity
        IN  /\ arity = 6 =>
                args = <<"req", "accessToken", "refreshToken", "params", "profile", "verified">>
            /\ arity = 5 =>
                args = <<"accessToken", "refreshToken", "params", "profile", "verified">>
            /\ arity = 4 =>
                args = <<"accessToken", "refreshToken", "profile", "verified">>

\* C3: with a verify callback of any other arity, a flow that reaches the
\* dispatch ends with one misconfiguration error on the error channel and
\* the callback is not called.
C3_UnsupportedArityIsAnError ==
    \A f \in Flows :
        (flows[f].pc = "verified" /\ strategy._verify.arity \notin {4, 5, 6}) =>
            /\ flows[f].verifyCalls = <<>>
            /\ Len(flows[f].errors) = 1
            /\ flows[f].errors[1].name = "Error"

\* The documented defaults and where the constructor leaves each resolved field.
DocumentedDefault(field) ==
    CASE field = "authorizationURL" -> Str(<<"https://oauth.vk.com/authorize">>)
      [] field = "tokenURL"         -> Str(<<"https://oauth.vk.com/access_token">>)
      [] field = "scopeSeparator"   -> Str(<<",">>)
      [] field = "lang"             -> Str(<<"en">>)
      [] field = "photoSize"        -> Num("200")
      [] field = "apiVersion"       -> Str(<<"5.110">>)
      [] field = "profileURL"       -> Str(<<"https://api.vk.com/method/users.get">>)

Resolved(field) ==
    CASE field = "authorizationURL" -> options.authorizationURL
      [] field = "tokenURL"         -> options.tokenURL
      [] field = "scopeSeparator"   -> options.scopeSeparator
      [] field = "lang"             -> strategy.lang
      [] field = "photoSize"        -> strategy.photoSize
      [] field = "apiVersion"       -> strategy._apiVersion
      [] field = "profileURL"       -> strategy._profileURL

ForwardedAsDocumented ==
    /\ options.passReqToCallback = Bool(TRUE)
    /\ strategy._passReqToCallback
    /\ options.lang = Undefined
    /\ options.photoSize = Undefined

\* C4, as claimed: an omitted optional field resolves to its documented
\* default and a supplied one is kept as supplied; pass-request is on, and
\* lang and photoSize are gone from the forwarded options.
C4_SuppliedKept ==
    strategy.constructed =>
        /\ \A field \in ScalarOptions :
             Resolved(field) = IF supplied[field] # Undefined
                               THEN supplied[field]
                               ELSE DocumentedDefault(field)
        /\ ForwardedAsDocumented

\* C4, amended: an optional field that is omitted, or supplied with a falsy
\* value, resolves to its documented default; one supplied with a truthy
\* value is kept; pass-request is on, and lang and photoSize are gone from
\* the forwarded options.
C4_DefaultsResolved ==
    strategy.constructed =>
        /\ \A field \in ScalarOptions :
             Resolved(field) = IF Truthy(supplied[field])
                               THEN supplied[field]
                               ELSE DocumentedDefault(field)
        /\ ForwardedAsDocumented

C4_Witness ==
    /\ strategy.constructed
    /\ supplied.lang = Undefined
    /\ supplied.apiVersion = Undefined
    /\ supplied.photoSize = Num("100")
    /\ supplied.scopeSeparator = Str(<<>>)
    /\ supplied.passReqToCallback = Bool(FALSE)

\* Reading a URL back: the atoms between two markers, and a list split at
\* its commas.
FirstIndex(seq, a) ==
    IF a \in Range(seq)
    THEN CHOOSE i \in 1..Len(seq) : seq[i] = a /\ \A j \in 1..(i - 1) : seq[j] # a
    ELSE 0

Between(seq, a, b) == SubSeq(seq, FirstIndex(seq, a) + 1, FirstIndex(seq, b) - 1)

RECURSIVE SplitAt(_, _)
SplitAt(seq, sep) ==
    IF sep \notin Range(seq) THEN <<seq>>
    ELSE <<SubSeq(seq, 1, FirstIndex(seq, sep) - 1)>>
           \o SplitAt(SubSeq(seq, FirstIndex(seq, sep) + 1, Len(seq)), sep)

FieldsParam(url) == SplitAt(Between(url, "?fields=", "&v="), ",")

\* C5: the fields parameter of every profile request is the six required
\* fields in order, then each caller field not already listed, in the
\* caller's order, nothing twice; the URL carries the configured API
\* version and https=1.
C5_ProfileFields ==
    \A f \in Flows : \A r \in 1..Len(flows[f].outbound) :
        LET url      == flows[f].outbound[r]
            F        == FieldsParam(url)
            caller   == supplied.profileFields.v
            required == << <<"uid">>, <<"first_name">>, <<"last_name">>,
                           <<"screen_name">>, <<"sex">>,
                           <<"photo_">> \o strategy.photoSize.v >>
            extra    == (Len(required) + 1)..Len(F)
        IN  /\ Len(F) >= Len(required)
            /\ SubSeq(F, 1, Len(required)) = required
            /\ \A i, j \in 1..Len(F) : i # j => F[i] # F[j]
            /\ \A i \in extra : F[i] \in Range(caller)
            /\ \A c \in Range(caller) : c \in Range(F)
            /\ \A i, j \in extra :
                 i < j => FirstIndex(caller, F[i]) < FirstIndex(caller, F[j])
            /\ Between(url, "&v=", "&https=1") = strategy._apiVersion.v
            /\ "&https=1" \in Range(url)

C5_Witness ==
    \E f \in Flows :
        /\ flows[f].outbound # <<>>
        /\ supplied.profileFields = Arr(<< <<"city">>, <<"sex">>, <<"city">> >>)
        /\ Len(FieldsParam(flows[f].outbound[1])) = 7

\* C6: parseErrorResponse never throws; a body with an object-shaped error
\* gives a token error with its error_msg and error_code, any other body
\* gives what the generic client's parseErrorResponse gives for it.
C6_ErrorResponseParsed ==
    \A f \in Flows :
        flows[f].pc = "tokenError" =>
            LET body == flows[f].tokenBody
                res  == flows[f].tokenResult
            IN  /\ ~res.threw
                /\ IF body = BodyTokenError
                   THEN res.value = VkontakteTokenError(Str(<<"invalid_grant">>), Num("100"))
                   ELSE res.value = OAuth2ParseErrorResponse(body, flows[f].tokenStatus)

\* C7: a profile response whose body carries an error object completes with
\* a provider API error holding its error_msg and error_code and no profile;
\* no call of done carries both an error and a profile, or neither.
C7_ApiErrorOrProfile ==
    \A f \in Flows :
        Completed(f) =>
            /\ (flows[f].transportError = NoTransportError /\ flows[f].body = BodyApiError) =>
                   /\ Len(flows[f].doneCalls) = 1
                   /\ flows[f].doneCalls[1].err.name = "VkontakteAPIError"
                   /\ flows[f].doneCalls[1].err.message = Str(<<"Invalid token">>)
                   /\ flows[f].doneCalls[1].err.code = Num("5")
                   /\ ~flows[f].doneCalls[1].profile.present
            /\ \A i \in 1..Len(flows[f].doneCalls) :
                   (flows[f].doneCalls[i].err # NoError) # flows[f].doneCalls[i].profile.present

C7_Witness ==
    \E f \in Flows :
        /\ flows[f].pc = "profileDone"
        /\ flows[f].body = BodyApiError
        /\ flows[f].doneCalls # <<>>

\* C8: a call of userProfile issues one request and no other is ever issued;
\* a transport failure reaches done once, as an InternalOAuthError holding
\* the cause, and the body is not parsed.
C8_OneRequestNoRetry ==
    \A f \in Flows :
        /\ Len(flows[f].outbound) <= 1
        /\ (flows[f].pc = "fetching" \/ Completed(f)) => Len(flows[f].outbound) = 1
        /\ (Completed(f) /\ flows[f].transportError # NoTransportError) =>
               /\ Len(flows[f].doneCalls) = 1
               /\ flows[f].doneCalls[1].err.name = "InternalOAuthError"
               /\ flows[f].doneCalls[1].err.message = Str(<<"failed to fetch user profile">>)
               /\ flows[f].doneCalls[1].err.cause = flows[f].transportError
               /\ ~flows[f].doneCalls[1].profile.present
               /\ ~flows[f].parsed

C8_Witness ==
    \E f \in Flows :
        /\ flows[f].pc = "profileDone"
        /\ flows[f].transportError = "ETIMEDOUT"
        /\ Len(flows[f].doneCalls) = 1

\* C9: once constructed, the strategy's configuration never changes,
\* whatever the flows do, and any two profile requests have the same URL.
C9_ConfigurationFrozen ==
    /\ [][strategy.constructed => strategy' = strategy]_vars
    /\ [](\A f, g \in Flows :
             \A i \in 1..Len(flows[f].outbound), j \in 1..Len(flows[g].outbound) :
                 flows[f].outbound[i] = flows[g].outbound[j])

C9_Witness ==
    /\ supplied.profileFields # Undefined
    /\ flows["flowA"].pc = "verified"
    /\ flows["flowB"].pc = "fetching"

\* C10: whatever the outcome of the request, done is called exactly once.
C10_DoneExactlyOnce ==
    \A f \in Flows : Completed(f) => Len(flows[f].doneCalls) = 1

====
